---- MODULE Spec2Model ----
(***************************************************************************)
(* Correlation-context propagation of opentelemetry-rust:                  *)
(*   src/src/api/correlation/propagation.rs   the text codec               *)
(*   src/src/api/context/propagation/mod.rs   the carrier adapters         *)
(*                                                                         *)
(* A string is the sequence of its UTF-8 bytes (naturals below 256), so    *)
(* that splitting, trimming, percent-encoding and percent-decoding are     *)
(* computed byte by byte as the code computes them.                        *)
(***************************************************************************)
EXTENDS Naturals, Integers, Sequences, FiniteSets, TLC

VARIABLES
    cx,       \* the Context at hand: its correlation context, in iteration order
    carrier,  \* the HashMap<String, String> carrier: a set of [key, value] entries
    op,       \* the operation that produced this state
    base,     \* the Context the last operation was given
    before,   \* the carrier as the last operation found it
    calls,    \* the Injector::set calls <<key, value>> the last inject_context made
    sent,     \* the previous injection: <<>> or <<[cx, carrier, fresh]>>
    arg,      \* the key of the last Injector::set / Extractor::get on the carrier
    got,      \* the result of the last Extractor::get: <<>> is None, <<v>> is Some(v)
    log,      \* the Injector::set calls made on the carrier so far
    store     \* the Contexts that exist, each as its correlation context

vars == <<cx, carrier, op, base, before, calls, sent, arg, got, log, store>>

----------------------------------------------------------------------------
(* Bytes the code names.                                                   *)

Comma == 44
Semicolon == 59
Equals == 61
Percent == 37
Space == 32
Quote == 34

None == <<>>
Some(v) == <<v>>

\* "otcorrelations"
CORRELATION_CONTEXT_HEADER == <<111, 116, 99, 111, 114, 114, 101, 108, 97, 116, 105, 111, 110, 115>>

\* The field names of the propagator, as a sequence.
CORRELATION_CONTEXT_FIELDS == <<CORRELATION_CONTEXT_HEADER>>

\* HttpTextFormat::fields, as the sequence of names its iterator yields.
fields == CORRELATION_CONTEXT_FIELDS

\* CONTROLS of the percent_encoding crate: C0 controls and DEL.
CONTROLS == (0..31) \cup {127}

FRAGMENT_no_comma == CONTROLS \cup {Space, Quote, Semicolon, Equals}

FRAGMENT == CONTROLS \cup {Space, Quote, Semicolon, Comma, Equals}

----------------------------------------------------------------------------
(* str and percent_encoding primitives.                                    *)

Drop(s, n) == SubSeq(s, n + 1, Len(s))

Take(s, n) == SubSeq(s, 1, n)

\* Index of the first occurrence of byte b in s, 0 if there is none.
Find(s, b) ==
    IF \E i \in 1..Len(s) : s[i] = b
    THEN CHOOSE i \in 1..Len(s) : s[i] = b /\ \A j \in 1..(i - 1) : s[j] # b
    ELSE 0

\* str::split(sep): the segments between the separators, at least one.
RECURSIVE Split(_, _)
Split(s, sep) ==
    LET i == Find(s, sep)
    IN  IF i = 0 THEN <<s>>
        ELSE <<Take(s, i - 1)>> \o Split(Drop(s, i), sep)

\* [String]::join(sep)
RECURSIVE Join(_, _)
Join(parts, sep) ==
    IF Len(parts) = 0 THEN <<>>
    ELSE IF Len(parts) = 1 THEN parts[1]
    ELSE parts[1] \o <<sep>> \o Join(Tail(parts), sep)

IsHex(b) == (b \in 48..57) \/ (b \in 65..70) \/ (b \in 97..102)

HexVal(b) ==
    IF b \in 48..57 THEN b - 48
    ELSE IF b \in 65..70 THEN b - 55
    ELSE b - 87

HexDigit(n) == IF n < 10 THEN 48 + n ELSE 55 + n

\* percent_decode_str: "%XY" with two hex digits is the byte 0xXY, every
\* other byte (a '%' not followed by two hex digits included) stands for itself.
RECURSIVE PercentDecode(_)
PercentDecode(s) ==
    IF Len(s) = 0 THEN <<>>
    ELSE IF s[1] = Percent /\ Len(s) >= 3 /\ IsHex(s[2]) /\ IsHex(s[3])
    THEN <<16 * HexVal(s[2]) + HexVal(s[3])>> \o PercentDecode(Drop(s, 3))
    ELSE <<s[1]>> \o PercentDecode(Drop(s, 1))

IsCont(b) == b \in 128..191

\* Length of the well-formed UTF-8 sequence s starts with, 0 if it starts with none.
Utf8CharLen(s) ==
    LET n == Len(s)
        b == s[1]
    IN  IF b < 128 THEN 1
        ELSE IF b \in 194..223 /\ n >= 2 /\ IsCont(s[2]) THEN 2
        ELSE IF b \in 224..239 /\ n >= 3 /\ IsCont(s[2]) /\ IsCont(s[3])
                /\ (b = 224 => s[2] >= 160) /\ (b = 237 => s[2] <= 159) THEN 3
        ELSE IF b \in 240..244 /\ n >= 4 /\ IsCont(s[2]) /\ IsCont(s[3]) /\ IsCont(s[4])
                /\ (b = 240 => s[2] >= 144) /\ (b = 244 => s[2] <= 143) THEN 4
        ELSE 0

\* PercentDecode::decode_utf8 is Ok exactly on well-formed UTF-8.
RECURSIVE Utf8Valid(_)
Utf8Valid(s) ==
    IF Len(s) = 0 THEN TRUE
    ELSE LET n == Utf8CharLen(s)
         IN  n > 0 /\ Utf8Valid(Drop(s, n))

\* The UTF-8 forms of the characters with the White_Space property.
WhiteSpace ==
    {<<b>> : b \in 9..13} \cup {<<Space>>}
    \cup {<<194, 133>>, <<194, 160>>, <<225, 154, 128>>}
    \cup {<<226, 128, b>> : b \in (128..138) \cup {168, 169, 175}}
    \cup {<<226, 129, 159>>, <<227, 128, 128>>}

\* str::trim_start
RECURSIVE TrimStart(_)
TrimStart(s) ==
    IF \E w \in WhiteSpace : Len(s) >= Len(w) /\ Take(s, Len(w)) = w
    THEN LET w == CHOOSE w \in WhiteSpace : Len(s) >= Len(w) /\ Take(s, Len(w)) = w
         IN  TrimStart(Drop(s, Len(w)))
    ELSE s

\* str::trim_end
RECURSIVE TrimEnd(_)
TrimEnd(s) ==
    IF \E w \in WhiteSpace : Len(s) >= Len(w) /\ Drop(s, Len(s) - Len(w)) = w
    THEN LET w == CHOOSE w \in WhiteSpace : Len(s) >= Len(w) /\ Drop(s, Len(s) - Len(w)) = w
         IN  TrimEnd(Take(s, Len(s) - Len(w)))
    ELSE s

\* str::trim
Trim(s) == TrimEnd(TrimStart(s))

\* utf8_percent_encode(s, set): a byte that is not ASCII or is in the set
\* becomes '%' and its two upper-case hex digits.
RECURSIVE Utf8PercentEncode(_, _)
Utf8PercentEncode(s, set) ==
    IF Len(s) = 0 THEN <<>>
    ELSE (IF s[1] >= 128 \/ s[1] \in set
          THEN <<Percent, HexDigit(s[1] \div 16), HexDigit(s[1] % 16)>>
          ELSE <<s[1]>>)
         \o Utf8PercentEncode(Drop(s, 1), set)

\* str::to_lowercase, on the ASCII keys the model uses.
ToLowercase(s) == [i \in 1..Len(s) |-> IF s[i] \in 65..90 THEN s[i] + 32 ELSE s[i]]

----------------------------------------------------------------------------
(* The generic mapping carrier, HashMap<String, String>.                   *)

HashMapInsert(map, key, value) ==
    {e \in map : e.key # key} \cup {[key |-> key, value |-> value]}

HashMapLookup(map, key) ==
    IF \E e \in map : e.key = key
    THEN Some((CHOOSE e \in map : e.key = key).value)
    ELSE None

\* A variant that stores the key as it was given.
Injector_set_cased(map, key, value) == HashMapInsert(map, key, value)

\* impl Injector for HashMap: set
Injector_set(map, key, value) == HashMapInsert(map, ToLowercase(key), value)

Extractor_get_cased(map, key) == HashMapLookup(map, key)

\* impl Extractor for HashMap: get
Extractor_get(map, key) == HashMapLookup(map, ToLowercase(key))

----------------------------------------------------------------------------
(* The header-set carriers, http::HeaderMap and                            *)
(* tonic::metadata::MetadataMap, as maps from a name to its one value.     *)

\* The bytes of an HTTP token: letters, digits and !#$%&'*+-.^_`|~
TokenBytes ==
    (48..57) \cup (65..90) \cup (97..122)
    \cup {33, 35, 36, 37, 38, 39, 42, 43, 45, 46, 94, 95, 96, 124, 126}

\* The bytes of a header value: visible ASCII, space and tab.
VisibleBytes == (32..126) \cup {9}

\* HeaderName::from_bytes: Some(the name in lower case), or None for Err.
HeaderName_from_bytes(key) ==
    IF key # <<>> /\ \A i \in 1..Len(key) : key[i] \in TokenBytes
    THEN Some(ToLowercase(key))
    ELSE None

\* HeaderValue::from_str: Some(the value), or None for Err.
HeaderValue_from_str(value) ==
    IF \A i \in 1..Len(value) : value[i] \in VisibleBytes
    THEN Some(value)
    ELSE None

\* HeaderValue::to_str().ok()
HeaderValue_to_str(value) ==
    IF \A i \in 1..Len(value) : value[i] \in VisibleBytes
    THEN Some(value)
    ELSE None

\* A variant that inserts the value without the test of it.
HeaderMap_set_any_value(map, key, value) ==
    LET name == HeaderName_from_bytes(key)
    IN  IF name # None THEN HashMapInsert(map, name[1], value) ELSE map

\* impl Injector for http::HeaderMap: set
HeaderMap_set(map, key, value) ==
    LET name == HeaderName_from_bytes(key)
    IN  IF name # None
        THEN LET val == HeaderValue_from_str(value)
             IN  IF val # None THEN HashMapInsert(map, name[1], val[1]) ELSE map
        ELSE map

\* impl Extractor for http::HeaderMap: get. A key that is no header name
\* finds nothing.
HeaderMap_get(map, key) ==
    LET name == HeaderName_from_bytes(key)
        found == IF name # None THEN HashMapLookup(map, name[1]) ELSE None
    IN  IF found # None THEN HeaderValue_to_str(found[1]) ELSE None

\* MetadataKey::from_bytes, for keys of ASCII metadata.
MetadataKey_from_bytes(key) == HeaderName_from_bytes(key)

\* MetadataValue::from_str
MetadataValue_from_str(value) == HeaderValue_from_str(value)

\* impl Injector for tonic::metadata::MetadataMap: set
MetadataMap_set(map, key, value) ==
    LET name == MetadataKey_from_bytes(key)
    IN  IF name # None
        THEN LET val == MetadataValue_from_str(value)
             IN  IF val # None THEN HashMapInsert(map, name[1], val[1]) ELSE map
        ELSE map

\* impl Extractor for tonic::metadata::MetadataMap: get
MetadataMap_get(map, key) ==
    LET name == MetadataKey_from_bytes(key)
        found == IF name # None THEN HashMapLookup(map, name[1]) ELSE None
    IN  IF found # None THEN HeaderValue_to_str(found[1]) ELSE None

----------------------------------------------------------------------------
(* The correlation context: key/value pairs with unique keys, in           *)
(* iteration order.                                                        *)

KeyValue(name, value) == [key |-> name, value |-> value]

Keys(c) == {c[i].key : i \in 1..Len(c)}

Pairs(c) == {c[i] : i \in 1..Len(c)}

(* CorrelationContext::get *)
Lookup(c, key) ==
    IF key \in Keys(c)
    THEN Some((CHOOSE e \in Pairs(c) : e.key = key).value)
    ELSE None

(* CorrelationContext::insert: an existing key has its value replaced. *)
Insert(c, kv) ==
    IF kv.key \in Keys(c)
    THEN [i \in 1..Len(c) |-> IF c[i].key = kv.key THEN kv ELSE c[i]]
    ELSE Append(c, kv)

(* FromIterator for CorrelationContext: the pairs inserted in turn. *)
RECURSIVE CollectInto(_, _)
CollectInto(c, kvs) ==
    IF Len(kvs) = 0 THEN c
    ELSE CollectInto(Insert(c, Head(kvs)), Tail(kvs))

Collect(kvs) == CollectInto(<<>>, kvs)

with_correlations_base_last(self, kvs) == Collect(kvs \o self)

\* CorrelationContextExt::with_correlations
with_correlations(self, kvs) == Collect(self \o kvs)

\* CorrelationContextExt::with_cleared_correlations
with_cleared_correlations(self) == <<>>

----------------------------------------------------------------------------
(* CorrelationContextPropagator::extract_with_context                      *)

\* A variant that stops at the first prop that does not decode.
RECURSIVE DecodedProps_until_err(_)
DecodedProps_until_err(props) ==
    IF Len(props) = 0 \/ ~Utf8Valid(PercentDecode(Head(props))) THEN <<>>
    ELSE <<Semicolon>> \o Trim(PercentDecode(Head(props)))
         \o DecodedProps_until_err(Tail(props))

\* The props of one entry: those that decode, trimmed, each after a ';'.
RECURSIVE DecodedProps(_)
DecodedProps(props) ==
    IF Len(props) = 0 THEN <<>>
    ELSE LET p == PercentDecode(Head(props))
         IN  (IF Utf8Valid(p) THEN <<Semicolon>> \o Trim(p) ELSE <<>>)
             \o DecodedProps(Tail(props))

\* A variant that takes an empty value for an absent one.
ExtractEntry_empty_value_err(context_value) ==
    LET segs == Split(context_value, Semicolon)
        name_and_value == Head(segs)
        props == Tail(segs)
        iter == Split(name_and_value, Equals)
    IN  IF Len(iter) >= 2 /\ iter[2] # <<>>
        THEN LET name == PercentDecode(iter[1])
                 value == PercentDecode(iter[2])
             IN  IF Utf8Valid(name) /\ Utf8Valid(value)
                 THEN <<KeyValue(Trim(name), Trim(value) \o DecodedProps(props))>>
                 ELSE <<>>
        ELSE <<>>

\* A variant that trims the raw segments and then decodes them.
ExtractEntry_trim_first(context_value) ==
    LET segs == Split(context_value, Semicolon)
        name_and_value == Head(segs)
        props == Tail(segs)
        iter == Split(name_and_value, Equals)
    IN  IF Len(iter) >= 2
        THEN LET name == PercentDecode(Trim(iter[1]))
                 value == PercentDecode(Trim(iter[2]))
             IN  IF Utf8Valid(name) /\ Utf8Valid(value)
                 THEN <<KeyValue(name, value \o DecodedProps(props))>>
                 ELSE <<>>
        ELSE <<>>

\* The closure of flat_map, on one entry: <<>> for Err(()), <<kv>> for Ok(kv).
ExtractEntry(context_value) ==
    LET segs == Split(context_value, Semicolon)
        name_and_value == Head(segs)
        props == Tail(segs)
        iter == Split(name_and_value, Equals)
    IN  IF Len(iter) >= 2
        THEN LET name == PercentDecode(iter[1])
                 value == PercentDecode(iter[2])
             IN  IF Utf8Valid(name) /\ Utf8Valid(value)
                 THEN <<KeyValue(Trim(name), Trim(value) \o DecodedProps(props))>>
                 ELSE <<>>
        ELSE <<>>

\* flat_map over the entries: the Ok ones, in wire order.
RECURSIVE FlatMapEntries(_)
FlatMapEntries(entries) ==
    IF Len(entries) = 0 THEN <<>>
    ELSE ExtractEntry(Head(entries)) \o FlatMapEntries(Tail(entries))

\* A variant that gives up at the first Err entry.
RECURSIVE FlatMapUntilErr(_)
FlatMapUntilErr(entries) ==
    IF Len(entries) = 0 \/ ExtractEntry(Head(entries)) = <<>> THEN <<>>
    ELSE ExtractEntry(Head(entries)) \o FlatMapUntilErr(Tail(entries))

Correlations_until_err(header_value) == FlatMapUntilErr(Split(header_value, Comma))

\* The sequence s from its last element to its first.
Reverse(s) == [i \in 1..Len(s) |-> s[Len(s) + 1 - i]]

\* A variant that yields the pairs from the last entry to the first.
Correlations_reversed(header_value) == Reverse(FlatMapEntries(Split(header_value, Comma)))

Correlations(header_value) == FlatMapEntries(Split(header_value, Comma))

\* A variant that starts from an empty context when the field is absent.
extract_with_context_absent_empty(self, extractor) ==
    LET header == Extractor_get(extractor, CORRELATION_CONTEXT_HEADER)
    IN  IF header # None
        THEN with_correlations(self, Correlations(header[1]))
        ELSE <<>>

extract_with_context(self, extractor) ==
    LET header == Extractor_get(extractor, CORRELATION_CONTEXT_HEADER)
    IN  IF header # None
        THEN with_correlations(self, Correlations(header[1]))
        ELSE self

----------------------------------------------------------------------------
(* Contexts as objects: store holds every Context that exists, self is the *)
(* position of the Context an operation is called on.                      *)

(* Context::with_value: a new Context, with value in it. *)
Context_with_value(contexts, self, value) == Append(contexts, value)

(* Context::clone *)
Context_clone(contexts, self) == Append(contexts, contexts[self])

\* A variant that merges the pairs into self and returns a copy of it.
StoreWithCorrelations_in_place(contexts, self, kvs) ==
    Context_clone([contexts EXCEPT ![self] = with_correlations(contexts[self], kvs)], self)

\* self.with_correlations(kvs)
StoreWithCorrelations(contexts, self, kvs) ==
    Context_with_value(contexts, self, with_correlations(contexts[self], kvs))

\* self.with_cleared_correlations()
StoreWithClearedCorrelations(contexts, self) ==
    Context_with_value(contexts, self, with_cleared_correlations(contexts[self]))

\* propagator.extract_with_context(self, extractor)
StoreExtractWithContext(contexts, self, extractor) ==
    LET header == Extractor_get(extractor, CORRELATION_CONTEXT_HEADER)
    IN  IF header # None
        THEN StoreWithCorrelations(contexts, self, Correlations(header[1]))
        ELSE Context_clone(contexts, self)

----------------------------------------------------------------------------
(* CorrelationContextPropagator::inject_context                            *)

\* The sequence c in every order.
Orders(c) ==
    {[i \in 1..Len(c) |-> c[f[i]]] :
        f \in {g \in [1..Len(c) -> 1..Len(c)] : \A i, j \in 1..Len(c) : g[i] = g[j] => i = j}}

\* A variant in which every traversal of a map may take another order.
Iter_any_order(correlation_cx) == Orders(correlation_cx)

\* correlation_cx.iter(): the orders a traversal of this map may take. A map
\* that is not changed is traversed in the one order it has.
Iter(correlation_cx) == {correlation_cx}

\* String::from(value), for the Value::String values of the model.
StringFrom(value) == value

\* The closure of map, on one pair: the encoded "name=value".
EncodePair(name, value) ==
    Utf8PercentEncode(Trim(name), FRAGMENT)
    \o <<Equals>>
    \o Utf8PercentEncode(Trim(StringFrom(value)), FRAGMENT)

\* The header value built from the pairs in the order iter() yields them.
HeaderValue(pairs) ==
    Join([i \in 1..Len(pairs) |-> EncodePair(pairs[i].key, pairs[i].value)], Comma)

\* A variant without the is_empty test.
inject_context_unguarded(pairs) ==
    <<[key |-> CORRELATION_CONTEXT_HEADER, value |-> HeaderValue(pairs)]>>

\* A variant that sets one field per pair, under the name of the pair.
inject_context_per_pair(pairs) ==
    [i \in 1..Len(pairs) |->
        [key |-> Utf8PercentEncode(Trim(pairs[i].key), FRAGMENT),
         value |-> Utf8PercentEncode(Trim(StringFrom(pairs[i].value)), FRAGMENT)]]

\* inject_context, as the Injector::set calls it makes, given the pairs of the
\* correlation context in the order iter() yields them.
inject_context(pairs) ==
    IF pairs # <<>>
    THEN <<[key |-> CORRELATION_CONTEXT_HEADER, value |-> HeaderValue(pairs)]>>
    ELSE <<>>

\* The carrier after the Injector::set calls sets.
RECURSIVE ApplySets(_, _)
ApplySets(map, sets) ==
    IF Len(sets) = 0 THEN map
    ELSE ApplySets(Injector_set(map, Head(sets).key, Head(sets).value), Tail(sets))

----------------------------------------------------------------------------
(* Inputs of extraction: wire values of the correlation field.             *)

MaxEntries == 2
MaxBase == 2

\* "k=v"
E_kv == <<107, 61, 118>>
\* "a"
E_token == <<97>>
\* "k=a=b"
E_two_eq == <<107, 61, 97, 61, 98>>
\* "k="
E_empty_value == <<107, 61>>
\* "=v"
E_empty_name == <<61, 118>>
\* " k = v "
E_spaces == <<32, 107, 32, 61, 32, 118, 32>>
\* "%20k=%20v%2C"
E_escaped == <<37, 50, 48, 107, 61, 37, 50, 48, 118, 37, 50, 67>>
\* "k=%FF"
E_bad_value == <<107, 61, 37, 70, 70>>
\* "%FF=v"
E_bad_name == <<37, 70, 70, 61, 118>>
\* "j=w; p ;%FF;q"
E_props == <<106, 61, 119, 59, 32, 112, 32, 59, 37, 70, 70, 59, 113>>
\* ""
E_empty == <<>>

WireEntries ==
    {E_kv, E_token, E_two_eq, E_empty_value, E_empty_name, E_spaces,
     E_escaped, E_bad_value, E_bad_name, E_props, E_empty}

\* The wire values of tests::valid_extract_data.
\* "key1=val1,key2=val2"
W_valid == <<107, 101, 121, 49, 61, 118, 97, 108, 49, 44, 107, 101, 121, 50, 61, 118, 97, 108, 50>>
\* "key1 =   val1,  key2 =val2   "
W_spaces == <<107, 101, 121, 49, 32, 61, 32, 32, 32, 118, 97, 108, 49, 44, 32, 32, 107, 101, 121, 50, 32, 61, 118, 97, 108, 50, 32, 32, 32>>
\* "key1=val1,key2=val2;prop=1"
W_properties == <<107, 101, 121, 49, 61, 118, 97, 108, 49, 44, 107, 101, 121, 50, 61, 118, 97, 108, 50, 59, 112, 114, 111, 112, 61, 49>>
\* "key1=val1,key2=val2%2Cval3"
W_escaped_comma == <<107, 101, 121, 49, 61, 118, 97, 108, 49, 44, 107, 101, 121, 50, 61, 118, 97, 108, 50, 37, 50, 67, 118, 97, 108, 51>>
\* "key1=val1,key2=val2,a,val3"
W_invalid == <<107, 101, 121, 49, 61, 118, 97, 108, 49, 44, 107, 101, 121, 50, 61, 118, 97, 108, 50, 44, 97, 44, 118, 97, 108, 51>>
\* "key1=,key2=val2"
W_no_value == <<107, 101, 121, 49, 61, 44, 107, 101, 121, 50, 61, 118, 97, 108, 50>>

TestWireValues ==
    {W_valid, W_spaces, W_properties, W_escaped_comma, W_invalid, W_no_value}

\* One to MaxEntries entries joined by ',', and the wire values of the tests.
WireValues ==
    {Join(es, Comma) : es \in UNION {[1..n -> WireEntries] : n \in 1..MaxEntries}}
    \cup TestWireValues

\* "k"
S_k == <<107>>
\* "m"
S_m == <<109>>
\* "old"
S_old == <<111, 108, 100>>

BasePairs == {KeyValue(S_k, S_old), KeyValue(S_m, S_old)}

\* The sequences of at most n pairs of ps with distinct keys.
ContextsOf(ps, n) ==
    {c \in UNION {[1..i -> ps] : i \in 0..n} : Cardinality(Keys(c)) = Len(c)}

BaseContexts == ContextsOf(BasePairs, MaxBase)

\* A carrier as tests::extract_correlations builds it: the field alone.
CarrierWith(header_value) == {[key |-> CORRELATION_CONTEXT_HEADER, value |-> header_value]}

----------------------------------------------------------------------------
(* Extraction: a context and a received carrier, extract_with_context      *)
(* applied to them.                                                        *)

InitExtract ==
    /\ cx \in BaseContexts
    /\ carrier \in {{}} \cup {CarrierWith(w) : w \in WireValues}
    /\ op = "init"
    /\ base = <<>>
    /\ before = {}
    /\ calls = <<>>
    /\ sent = <<>>
    /\ arg = <<>>
    /\ got = None
    /\ log = <<>>
    /\ store = <<>>

ExtractWithContext ==
    /\ cx' = extract_with_context(cx, carrier)
    /\ base' = cx
    /\ before' = carrier
    /\ op' = "extract"
    /\ UNCHANGED <<carrier, calls, sent, arg, got, log, store>>

NextExtract == ExtractWithContext

SpecExtract == InitExtract /\ [][NextExtract]_vars

----------------------------------------------------------------------------
(* Vocabulary of the statements about extraction, read off the wire value  *)
(* by position rather than through the code's split.                       *)

Extracted == op = "extract"

\* The correlation field the last operation found in the carrier.
FieldValue == HashMapLookup(before, CORRELATION_CONTEXT_HEADER)

FieldEntries == IF FieldValue = None THEN <<>> ELSE Split(FieldValue[1], Comma)

\* The text of entry e up to its first ';'.
FirstSegment(e) == IF Find(e, Semicolon) = 0 THEN e ELSE Take(e, Find(e, Semicolon) - 1)

\* The property segments of entry e, in wire order.
PropSegments(e) ==
    IF Find(e, Semicolon) = 0 THEN <<>> ELSE Split(Drop(e, Find(e, Semicolon)), Semicolon)

HasEquals(e) == Find(FirstSegment(e), Equals) # 0

\* The text before the first '=' of the first segment.
NameText(e) == Take(FirstSegment(e), Find(FirstSegment(e), Equals) - 1)

\* All the text after the first '=' of the first segment.
RestText(e) == Drop(FirstSegment(e), Find(FirstSegment(e), Equals))

\* The text between the first '=' of the first segment and the next one.
ValueText(e) == IF Find(RestText(e), Equals) = 0 THEN RestText(e)
                ELSE Take(RestText(e), Find(RestText(e), Equals) - 1)

Decodes(s) == Utf8Valid(PercentDecode(s))

Malformed(e) == ~HasEquals(e) \/ ~Decodes(NameText(e)) \/ ~Decodes(ValueText(e))

NameOf(e) == Trim(PercentDecode(NameText(e)))

WellFormedEntries == SelectSeq(FieldEntries, LAMBDA e : ~Malformed(e))

\* Entry i is the last well-formed entry of the field with its name.
LastOfItsName(i) ==
    /\ ~Malformed(FieldEntries[i])
    /\ \A j \in (i + 1)..Len(FieldEntries) :
          Malformed(FieldEntries[j]) \/ NameOf(FieldEntries[j]) # NameOf(FieldEntries[i])

\* "key1"
S_key1 == <<107, 101, 121, 49>>
\* "key2"
S_key2 == <<107, 101, 121, 50>>
\* "val1"
S_val1 == <<118, 97, 108, 49>>
\* "val2"
S_val2 == <<118, 97, 108, 50>>
\* "val2;prop=1"
S_val2_prop == <<118, 97, 108, 50, 59, 112, 114, 111, 112, 61, 49>>

----------------------------------------------------------------------------
\* C1: an entry without '=' in its first segment, or whose name or value does
\* not percent-decode to UTF-8, contributes nothing: the result is the one the
\* well-formed entries alone give, and the name of every well-formed entry is
\* a key of the result, wherever the malformed entries stand;
\* "key1=val1,key2=val2,a,val3" gives exactly {key1: "val1", key2: "val2"}.
C1_MalformedEntriesSkipped ==
    (Extracted /\ FieldValue # None) =>
        /\ cx = with_correlations(base, FlatMapEntries(WellFormedEntries))
        /\ \A i \in 1..Len(FieldEntries) :
              ~Malformed(FieldEntries[i]) => NameOf(FieldEntries[i]) \in Keys(cx)
        /\ (FieldValue = Some(W_invalid) /\ base = <<>>) =>
              Pairs(cx) = {KeyValue(S_key1, S_val1), KeyValue(S_key2, S_val2)}

\* A well-formed entry after a malformed one was extracted.
C1_Witness ==
    /\ Extracted
    /\ base = <<>>
    /\ Len(FieldEntries) = 2
    /\ Malformed(FieldEntries[1])
    /\ ~Malformed(FieldEntries[2])
    /\ Keys(cx) = {NameOf(FieldEntries[2])}

\* C3: the name=value segment is split on its first '=' only, so the stored
\* value of an entry is all the text after that '=' (decoded and trimmed,
\* then the properties), further '=' characters kept.
C3_SplitOnFirstEqualsOnly ==
    Extracted =>
        \A i \in 1..Len(FieldEntries) :
            LET e == FieldEntries[i]
            IN  (/\ HasEquals(e) /\ Decodes(NameText(e)) /\ Decodes(RestText(e))
                 /\ \A j \in (i + 1)..Len(FieldEntries) :
                       ~HasEquals(FieldEntries[j])
                       \/ NameOf(FieldEntries[j]) # NameOf(e))
                => Lookup(cx, NameOf(e))
                     = Some(Trim(PercentDecode(RestText(e))) \o DecodedProps(PropSegments(e)))

\* The properties of an entry as the claim has them: each one that decodes,
\* appended unchanged after a ';'.
RECURSIVE LiteralSuffix(_)
LiteralSuffix(props) ==
    IF Len(props) = 0 THEN <<>>
    ELSE (IF Decodes(Head(props)) THEN <<Semicolon>> \o PercentDecode(Head(props)) ELSE <<>>)
         \o LiteralSuffix(Tail(props))

\* The same with each decoded property trimmed of surrounding whitespace.
RECURSIVE TrimmedSuffix(_)
TrimmedSuffix(props) ==
    IF Len(props) = 0 THEN <<>>
    ELSE (IF Decodes(Head(props)) THEN <<Semicolon>> \o Trim(PercentDecode(Head(props))) ELSE <<>>)
         \o TrimmedSuffix(Tail(props))

\* C4 as stated: the stored value is the trimmed decoded value followed, in
\* wire order, by ";" and the decoded text of each property that decodes,
\* appended unchanged.
C4_PropertiesAppendedUnchanged ==
    Extracted =>
        \A i \in 1..Len(FieldEntries) :
            LastOfItsName(i) =>
                Lookup(cx, NameOf(FieldEntries[i]))
                  = Some(Trim(PercentDecode(ValueText(FieldEntries[i])))
                         \o LiteralSuffix(PropSegments(FieldEntries[i])))

\* C4 amended: the stored value is the trimmed decoded value followed, in wire
\* order, by ";" and the decoded text, trimmed of surrounding whitespace, of
\* each property that decodes; a property that does not decode is left out and
\* the entry is kept; "key1=val1,key2=val2;prop=1" gives
\* {key1: "val1", key2: "val2;prop=1"}.
C4_PropertiesAppendedTrimmed ==
    Extracted =>
        /\ \A i \in 1..Len(FieldEntries) :
              LastOfItsName(i) =>
                  Lookup(cx, NameOf(FieldEntries[i]))
                    = Some(Trim(PercentDecode(ValueText(FieldEntries[i])))
                           \o TrimmedSuffix(PropSegments(FieldEntries[i])))
        /\ (FieldValue = Some(W_properties) /\ base = <<>>) =>
              Pairs(cx) = {KeyValue(S_key1, S_val1), KeyValue(S_key2, S_val2_prop)}

\* An entry with a property that decodes and one that does not was stored.
C4_Witness ==
    /\ Extracted
    /\ \E i \in 1..Len(FieldEntries) :
          /\ LastOfItsName(i)
          /\ \E p, q \in 1..Len(PropSegments(FieldEntries[i])) :
                /\ Decodes(PropSegments(FieldEntries[i])[p])
                /\ ~Decodes(PropSegments(FieldEntries[i])[q])
          /\ Lookup(cx, NameOf(FieldEntries[i])) # None

\* The value the field's entries give key k: that of the last extracted pair
\* with that key, None if there is none.
ExtractedValue(k) ==
    LET kvs == IF FieldValue = None THEN <<>> ELSE Correlations(FieldValue[1])
        at == {i \in 1..Len(kvs) : kvs[i].key = k}
    IN  IF at = {} THEN None
        ELSE Some(kvs[CHOOSE i \in at : \A j \in at : j <= i].value)

\* C5: the result of extract_with_context has every key of the base; a key of
\* the base that the field's entries also give carries the extracted value, a
\* key the base alone has keeps its base value.
C5_MergeOnExtract ==
    Extracted =>
        \A k \in Keys(base) :
            /\ k \in Keys(cx)
            /\ Lookup(cx, k) = IF ExtractedValue(k) # None THEN ExtractedValue(k)
                               ELSE Lookup(base, k)

\* A base key was overridden by the field while another was kept.
C5_Witness ==
    /\ Extracted
    /\ \E k, m \in Keys(base) :
          /\ ExtractedValue(k) # None
          /\ ExtractedValue(k) # Lookup(base, k)
          /\ ExtractedValue(m) = None
          /\ Lookup(cx, m) = Lookup(base, m)

\* C6: without a correlation field, or with a field that has no well-formed
\* entry, extract_with_context returns a context whose correlation context is
\* that of the base; whatever the field, it returns a context.
C6_NothingExtractedGivesBase ==
    Extracted =>
        /\ Cardinality(Keys(cx)) = Len(cx)
        /\ (FieldValue = None \/ \A i \in 1..Len(FieldEntries) : Malformed(FieldEntries[i]))
              => Pairs(cx) = Pairs(base)

\* Extraction ran on a non-empty base with a field of malformed entries only.
C6_Witness ==
    /\ Extracted
    /\ base # <<>>
    /\ FieldValue # None
    /\ Len(FieldEntries) = 2
    /\ \A i \in 1..Len(FieldEntries) : Malformed(FieldEntries[i])
    /\ Pairs(cx) = Pairs(base)

\* C12: an entry "name=" with nothing after the '=' is stored under its name
\* with the empty string as value; "key1=,key2=val2" gives
\* {key1: "", key2: "val2"}.
C12_EmptyValueKept ==
    Extracted =>
        /\ \A i \in 1..Len(FieldEntries) :
              (/\ LastOfItsName(i)
               /\ RestText(FieldEntries[i]) = <<>>
               /\ PropSegments(FieldEntries[i]) = <<>>)
              => Lookup(cx, NameOf(FieldEntries[i])) = Some(<<>>)
        /\ (FieldValue = Some(W_no_value) /\ base = <<>>) =>
              Pairs(cx) = {KeyValue(S_key1, <<>>), KeyValue(S_key2, S_val2)}

\* "k=" came after another entry and was stored with the empty value.
C12_Witness ==
    /\ Extracted
    /\ Len(FieldEntries) = 2
    /\ FieldEntries[2] = E_empty_value
    /\ Lookup(base, S_k) = Some(S_old)
    /\ Lookup(cx, S_k) = Some(<<>>)

\* s neither starts nor ends with a whitespace character.
NoEdgeWhite(s) ==
    \A w \in WhiteSpace :
        Len(s) >= Len(w) => (Take(s, Len(w)) # w /\ Drop(s, Len(s) - Len(w)) # w)

\* C13: the raw name and value are percent-decoded and the results trimmed,
\* so every name stored from the field and every stored value, up to its
\* property suffix, is the trimmed decoding of its raw text and has no leading
\* or trailing whitespace, raw or percent-encoded on the wire;
\* "key1 =   val1,  key2 =val2   " gives {key1: "val1", key2: "val2"}.
C13_DecodeThenTrim ==
    (Extracted /\ FieldValue # None) =>
        /\ \A k \in Keys(cx) \ Keys(base) : NoEdgeWhite(k)
        /\ \A i \in 1..Len(FieldEntries) :
              LastOfItsName(i) =>
                  LET e == FieldEntries[i]
                      stored == Lookup(cx, NameOf(e))
                      suffix == TrimmedSuffix(PropSegments(e))
                  IN  /\ stored # None
                      /\ Len(stored[1]) >= Len(suffix)
                      /\ NoEdgeWhite(Take(stored[1], Len(stored[1]) - Len(suffix)))
                      /\ Take(stored[1], Len(stored[1]) - Len(suffix))
                           = Trim(PercentDecode(ValueText(e)))
        /\ (FieldValue = Some(W_spaces) /\ base = <<>>) =>
              Pairs(cx) = {KeyValue(S_key1, S_val1), KeyValue(S_key2, S_val2)}

\* "v,"
S_v_comma == <<118, 44>>

\* An entry with percent-encoded spaces around its name and value was stored.
C13_Witness ==
    /\ Extracted
    /\ base = <<>>
    /\ FieldValue = Some(E_escaped)
    /\ cx = <<KeyValue(S_k, S_v_comma)>>

\* C14: when several well-formed entries of the field have the same name, the
\* result has exactly one pair for that name, with the value of the last of
\* them in wire order.
C14_LastDuplicateWins ==
    Extracted =>
        \A i, j \in 1..Len(FieldEntries) :
            (/\ i < j
             /\ ~Malformed(FieldEntries[i])
             /\ LastOfItsName(j)
             /\ NameOf(FieldEntries[i]) = NameOf(FieldEntries[j]))
            => /\ Cardinality({n \in 1..Len(cx) : cx[n].key = NameOf(FieldEntries[j])}) = 1
               /\ Lookup(cx, NameOf(FieldEntries[j]))
                    = Some(Trim(PercentDecode(ValueText(FieldEntries[j])))
                           \o TrimmedSuffix(PropSegments(FieldEntries[j])))

\* Two entries named "k" with different values were extracted.
C14_Witness ==
    /\ Extracted
    /\ base = <<>>
    /\ FieldEntries = <<E_kv, E_empty_value>>
    /\ cx = <<KeyValue(S_k, <<>>)>>

\* C17: an entry with nothing before its '=' is discarded, so extraction into
\* a context without the empty-string key gives no correlation under the
\* empty-string key.
C17_EmptyNameDiscarded ==
    (Extracted /\ <<>> \notin Keys(base)) => <<>> \notin Keys(cx)

----------------------------------------------------------------------------
(* Injection: a context is injected into carriers, and what was injected   *)
(* is extracted again.                                                     *)

MaxPairs == 2

\* "val1,val2"
S_val1_val2 == <<118, 97, 108, 49, 44, 118, 97, 108, 50>>
\* "val3=4"
S_val3_4 == <<118, 97, 108, 51, 61, 52>>
\* "key1=val1%2Cval2"
S_enc1 == <<107, 101, 121, 49, 61, 118, 97, 108, 49, 37, 50, 67, 118, 97, 108, 50>>
\* "%2C"
S_pct == <<37, 50, 67>>
\* " k "
S_sp_k == <<32, 107, 32>>
\* " v "
S_sp_v == <<32, 118, 32>>
\* "v;p"
S_semi == <<118, 59, 112>>
\* "a=b"
S_eq == <<97, 61, 98>>
\* 'q', '"', tab, 'v'
S_ctl == <<113, 34, 9, 118>>
\* 'e' with an acute accent
S_eacute == <<195, 169>>
\* "other"
S_other == <<111, 116, 104, 101, 114>>
\* "x"
S_x == <<120>>

\* The pairs of tests::valid_inject_data with string values, and pairs with
\* each kind of byte the encoding set names.
InjectPairs ==
    {KeyValue(S_key1, S_val1), KeyValue(S_key2, S_val2),
     KeyValue(S_key1, S_val1_val2), KeyValue(S_key2, S_val3_4),
     KeyValue(S_k, S_pct), KeyValue(S_sp_k, S_sp_v), KeyValue(S_eq, S_semi),
     KeyValue(S_eacute, S_ctl)}

InjectContexts == ContextsOf(InjectPairs, MaxPairs)

\* Carriers as inject_context may find them: fresh, or holding fields already.
InitialCarriers ==
    {{}, {[key |-> S_other, value |-> S_x]} \cup CarrierWith(E_kv)}

InitInject ==
    /\ cx \in InjectContexts
    /\ carrier \in InitialCarriers
    /\ op = "init"
    /\ base = <<>>
    /\ before = {}
    /\ calls = <<>>
    /\ sent = <<>>
    /\ arg = <<>>
    /\ got = None
    /\ log = <<>>
    /\ store = <<>>

\* propagator.inject_context(&cx, &mut carrier). sent keeps the last two
\* injections, the latest first.
InjectContext ==
    \E pairs \in Iter(cx) :
        /\ calls' = inject_context(pairs)
        /\ carrier' = ApplySets(carrier, calls')
        /\ base' = cx
        /\ before' = carrier
        /\ op' = "inject"
        /\ sent' = <<[cx |-> cx, fresh |-> carrier = {}, carrier |-> carrier']>>
                   \o (IF sent = <<>> THEN <<>> ELSE <<sent[1]>>)
        /\ UNCHANGED <<cx, arg, got, log, store>>

\* A fresh carrier takes the place of the carrier at hand: HashMap::new().
NewCarrier ==
    /\ carrier # {}
    /\ carrier' = {}
    /\ before' = carrier
    /\ base' = cx
    /\ op' = "new"
    /\ UNCHANGED <<cx, calls, sent, arg, got, log, store>>

\* cx.with_cleared_correlations() becomes the context at hand.
WithClearedCorrelations ==
    /\ cx # <<>>
    /\ cx' = with_cleared_correlations(cx)
    /\ base' = cx
    /\ before' = carrier
    /\ op' = "clear"
    /\ UNCHANGED <<carrier, calls, sent, arg, got, log, store>>

NextInject ==
    \/ InjectContext
    \/ NewCarrier
    \/ WithClearedCorrelations
    \/ ExtractWithContext

SpecInject == InitInject /\ [][NextInject]_vars

----------------------------------------------------------------------------
(* Vocabulary of the statements about injection.                           *)

Injected == op = "inject"

\* The number of bytes of s that are in set.
Count(s, set) == Cardinality({i \in 1..Len(s) : s[i] \in set})

\* No key and no value of c has a byte the encoder percent-encodes.
ReservedFree(c) ==
    \A i \in 1..Len(c) :
        /\ \A n \in 1..Len(c[i].key) : c[i].key[n] < 128 /\ c[i].key[n] \notin FRAGMENT
        /\ \A n \in 1..Len(c[i].value) : c[i].value[n] < 128 /\ c[i].value[n] \notin FRAGMENT

\* The last operations were: inject the context sent[1].cx into a fresh
\* carrier, then extract from that carrier into a context without correlations.
RoundTripped ==
    /\ Extracted
    /\ base = <<>>
    /\ sent # <<>>
    /\ sent[1].fresh
    /\ before = sent[1].carrier

\* C2: a correlation context free of the reserved set, injected into a fresh
\* carrier and extracted from it into a context without correlations, comes
\* back with the same key/value pairs.
C2_RoundTrip ==
    (RoundTripped /\ ReservedFree(sent[1].cx)) => Pairs(cx) = Pairs(sent[1].cx)

\* C7: with an empty correlation context inject_context makes no
\* Injector::set call and leaves the carrier as it found it.
C7_EmptyContextInjectsNothing ==
    (Injected /\ base = <<>>) => (calls = <<>> /\ carrier = before)

\* An empty context was injected into a carrier that holds fields.
C7_Witness ==
    /\ Injected
    /\ base = <<>>
    /\ before # {}
    /\ HashMapLookup(carrier, CORRELATION_CONTEXT_HEADER) = Some(E_kv)

\* C8: the field value injected for a non-empty correlation context has no
\* raw control character, space, double quote or ';', one raw '=' for each
\* pair and one raw ',' between two pairs, so that it splits on ',' into as
\* many entries as there are pairs, each with one '=';
\* {key1: "val1,val2"} is encoded as "key1=val1%2Cval2".
C8_ReservedBytesEscaped ==
    (Injected /\ base # <<>>) =>
        /\ Len(calls) = 1
        /\ LET v == calls[1].value
           IN  /\ Count(v, (0..31) \cup {127, Space, Quote, Semicolon}) = 0
               /\ Count(v, {Comma}) = Len(base) - 1
               /\ Count(v, {Equals}) = Len(base)
               /\ Len(Split(v, Comma)) = Len(base)
               /\ \A i \in 1..Len(base) : Count(Split(v, Comma)[i], {Equals}) = 1
               /\ base = <<KeyValue(S_key1, S_val1_val2)>> => v = S_enc1

\* Pairs with a ',' and a '=' in their values were injected.
C8_Witness ==
    /\ Injected
    /\ Len(base) = 2
    /\ \E i \in 1..2 : Count(base[i].value, {Comma}) > 0
    /\ \E i \in 1..2 : Count(base[i].value, {Equals}) > 0
    /\ Len(calls) = 1

FieldsOf(map) == {e \in map : \E i \in 1..Len(fields) : e.key = fields[i]}

\* C15: the propagator uses one carrier key, a lower-case ASCII constant:
\* fields() yields that one name, inject_context calls set at most once and
\* only with that key, extract_with_context reads only that key, and
\* inject_context leaves every other entry of the carrier as it was.
C15_OneCarrierKey ==
    /\ fields = <<CORRELATION_CONTEXT_HEADER>>
    /\ \A i \in 1..Len(CORRELATION_CONTEXT_HEADER) :
          CORRELATION_CONTEXT_HEADER[i] \in 97..122
    /\ Injected =>
          /\ Len(calls) <= 1
          /\ \A i \in 1..Len(calls) : calls[i].key = CORRELATION_CONTEXT_HEADER
          /\ before \ FieldsOf(before) = carrier \ FieldsOf(carrier)
    /\ Extracted => cx = extract_with_context(base, FieldsOf(before))

\* A context with correlations was injected into a carrier that held another
\* field and an older value of the correlation field.
C15_Witness ==
    /\ Injected
    /\ Len(calls) = 1
    /\ [key |-> S_other, value |-> S_x] \in before
    /\ [key |-> S_other, value |-> S_x] \in carrier
    /\ FieldsOf(before) = CarrierWith(E_kv)
    /\ FieldsOf(carrier) # FieldsOf(before)
    /\ Cardinality(carrier) = 2

----------------------------------------------------------------------------
(* The generic mapping adapter under Injector::set and Extractor::get.     *)

MaxSets == 2

\* "headerName"
S_headerName == <<104, 101, 97, 100, 101, 114, 78, 97, 109, 101>>
\* "HEADERNAME"
S_HEADERNAME == <<72, 69, 65, 68, 69, 82, 78, 65, 77, 69>>
\* "value"
S_value == <<118, 97, 108, 117, 101>>

\* The keys of tests::hash_map, and another key.
CarrierKeys == {S_headerName, S_HEADERNAME, S_other}

CarrierValues == {S_value, S_x}

InitCarrier ==
    /\ carrier = {}
    /\ op = "init"
    /\ cx = <<>>
    /\ base = <<>>
    /\ before = {}
    /\ calls = <<>>
    /\ sent = <<>>
    /\ arg = <<>>
    /\ got = None
    /\ log = <<>>
    /\ store = <<>>

\* carrier.set(key, value)
Set ==
    \E key \in CarrierKeys, value \in CarrierValues :
        /\ Len(log) < MaxSets
        /\ carrier' = Injector_set(carrier, key, value)
        /\ before' = carrier
        /\ log' = Append(log, [key |-> key, value |-> value])
        /\ arg' = key
        /\ got' = None
        /\ op' = "set"
        /\ UNCHANGED <<cx, base, calls, sent, store>>

\* Extractor::get(&carrier, key)
Get ==
    \E key \in CarrierKeys :
        /\ got' = Extractor_get(carrier, key)
        /\ before' = carrier
        /\ arg' = key
        /\ op' = "get"
        /\ UNCHANGED <<cx, carrier, base, calls, sent, log, store>>

NextCarrier == Set \/ Get

SpecCarrier == InitCarrier /\ [][NextCarrier]_vars

\* a and b are the same but for the case of ASCII letters.
EqIgnoreCase(a, b) ==
    /\ Len(a) = Len(b)
    /\ \A i \in 1..Len(a) :
          (IF a[i] \in 97..122 THEN a[i] - 32 ELSE a[i])
            = (IF b[i] \in 97..122 THEN b[i] - 32 ELSE b[i])

\* C10: on the generic mapping adapter, set(k, v) followed by get(k') with k'
\* equal to k but for letter case returns Some(v); set with "headerName" then
\* get with "HEADERNAME" returns Some("value").
C10_CaseInsensitiveGet ==
    (op = "get" /\ log # <<>> /\ EqIgnoreCase(log[Len(log)].key, arg))
        => got = Some(log[Len(log)].value)

\* "headerName" was set to "value" and "HEADERNAME" was read.
C10_Witness ==
    /\ op = "get"
    /\ log = <<[key |-> S_headerName, value |-> S_value]>>
    /\ arg = S_HEADERNAME
    /\ got = Some(S_value)

\* The positions of the set calls whose key is k but for letter case.
SetsOf(k) == {i \in 1..Len(log) : EqIgnoreCase(log[i].key, k)}

\* The largest number of a non-empty set of numbers.
Max(S) == CHOOSE m \in S : \A n \in S : n <= m

----------------------------------------------------------------------------
(* The header-set adapters under Injector::set and Extractor::get. op      *)
(* tells which of the two carriers the run is about.                       *)

\* "bad key"
S_bad_key == <<98, 97, 100, 32, 107, 101, 121>>
\* "v\nw"
S_bad_value == <<118, 10, 119>>

\* The keys of tests::http_headers and tests::tonic_headers, and keys that
\* are no header names.
HeaderKeys == {S_headerName, S_HEADERNAME, S_bad_key, <<>>}

\* Values that are header values, and values that are not.
HeaderValues == {S_value, S_x, S_bad_value, S_eacute}

HttpOps == {"http::new", "http::set", "http::get"}
TonicOps == {"tonic::new", "tonic::set", "tonic::get"}

\* http::HeaderMap::new() or tonic::metadata::MetadataMap::new()
InitHeaders ==
    /\ carrier = {}
    /\ op \in {"http::new", "tonic::new"}
    /\ cx = <<>>
    /\ base = <<>>
    /\ before = {}
    /\ calls = <<>>
    /\ sent = <<>>
    /\ arg = <<>>
    /\ got = None
    /\ log = <<>>
    /\ store = <<>>

\* The header map's set(key, value)
HttpSet ==
    \E key \in HeaderKeys, value \in HeaderValues :
        /\ op \in HttpOps
        /\ Len(log) < MaxSets
        /\ carrier' = HeaderMap_set(carrier, key, value)
        /\ before' = carrier
        /\ log' = Append(log, [key |-> key, value |-> value])
        /\ arg' = key
        /\ got' = None
        /\ op' = "http::set"
        /\ UNCHANGED <<cx, base, calls, sent, store>>

\* The header map's get(key)
HttpGet ==
    \E key \in HeaderKeys :
        /\ op \in HttpOps
        /\ got' = HeaderMap_get(carrier, key)
        /\ before' = carrier
        /\ arg' = key
        /\ op' = "http::get"
        /\ UNCHANGED <<cx, carrier, base, calls, sent, log, store>>

\* The metadata map's set(key, value)
TonicSet ==
    \E key \in HeaderKeys, value \in HeaderValues :
        /\ op \in TonicOps
        /\ Len(log) < MaxSets
        /\ carrier' = MetadataMap_set(carrier, key, value)
        /\ before' = carrier
        /\ log' = Append(log, [key |-> key, value |-> value])
        /\ arg' = key
        /\ got' = None
        /\ op' = "tonic::set"
        /\ UNCHANGED <<cx, base, calls, sent, store>>

\* The metadata map's get(key)
TonicGet ==
    \E key \in HeaderKeys :
        /\ op \in TonicOps
        /\ got' = MetadataMap_get(carrier, key)
        /\ before' = carrier
        /\ arg' = key
        /\ op' = "tonic::get"
        /\ UNCHANGED <<cx, carrier, base, calls, sent, log, store>>

NextHeaders == HttpSet \/ HttpGet \/ TonicSet \/ TonicGet

SpecHeaders == InitHeaders /\ [][NextHeaders]_vars

\* The set call c was given a key that is no header name or a value that is
\* no header value.
Rejected(c) ==
    \/ c.key = <<>>
    \/ \E i \in 1..Len(c.key) : c.key[i] \notin TokenBytes
    \/ \E i \in 1..Len(c.value) : c.value[i] \notin VisibleBytes

\* The positions of the set calls that were not rejected and whose key is k
\* but for letter case.
AcceptedSetsOf(k) == {i \in SetsOf(k) : ~Rejected(log[i])}

\* C11: on the header map and on the metadata map, a set whose key is no valid
\* name or whose value is no valid value returns and leaves the carrier as it
\* was, with the earlier value of that key, and a later get of that key does
\* not return the rejected value: it returns the value of the last set that
\* was not rejected, or None.
C11_InvalidSetIsNoOp ==
    /\ (op \in {"http::set", "tonic::set"} /\ Rejected(log[Len(log)])) =>
          carrier = before
    /\ op \in {"http::get", "tonic::get"} =>
          got = (IF AcceptedSetsOf(arg) = {} THEN None
                 ELSE Some(log[Max(AcceptedSetsOf(arg))].value))

\* On the metadata map, "headerName" was set to "value", a set of "HEADERNAME"
\* to "v\nw" was rejected, and a read of "headerName" returned "value".
C11_Witness ==
    /\ op = "tonic::get"
    /\ log = <<[key |-> S_headerName, value |-> S_value],
               [key |-> S_HEADERNAME, value |-> S_bad_value]>>
    /\ arg = S_headerName
    /\ got = Some(S_value)

----------------------------------------------------------------------------
(* Contexts derived from contexts.                                         *)

MaxContexts == 3

\* The pairs given to with_correlations.
DerivePairs ==
    {<<KeyValue(S_k, S_val1)>>, <<KeyValue(S_m, S_val2), KeyValue(S_key1, S_val1)>>}

\* The carriers given to extract_with_context.
DeriveCarriers == {{}, CarrierWith(E_kv), CarrierWith(W_valid)}

InitContext ==
    /\ cx \in BaseContexts
    /\ store = <<cx>>
    /\ carrier = {}
    /\ op = "init"
    /\ base = <<>>
    /\ before = {}
    /\ calls = <<>>
    /\ sent = <<>>
    /\ arg = <<>>
    /\ got = None
    /\ log = <<>>

\* store[self].with_correlations(kvs)
DeriveWithCorrelations ==
    \E self \in 1..Len(store), kvs \in DerivePairs :
        /\ Len(store) < MaxContexts
        /\ store' = StoreWithCorrelations(store, self, kvs)
        /\ cx' = store'[Len(store')]
        /\ base' = store[self]
        /\ op' = "with_correlations"
        /\ UNCHANGED <<carrier, before, calls, sent, arg, got, log>>

\* store[self].with_cleared_correlations()
DeriveCleared ==
    \E self \in 1..Len(store) :
        /\ Len(store) < MaxContexts
        /\ store' = StoreWithClearedCorrelations(store, self)
        /\ cx' = store'[Len(store')]
        /\ base' = store[self]
        /\ op' = "with_cleared_correlations"
        /\ UNCHANGED <<carrier, before, calls, sent, arg, got, log>>

\* propagator.extract_with_context(&store[self], &extractor)
DeriveExtracted ==
    \E self \in 1..Len(store), extractor \in DeriveCarriers :
        /\ Len(store) < MaxContexts
        /\ store' = StoreExtractWithContext(store, self, extractor)
        /\ cx' = store'[Len(store')]
        /\ base' = store[self]
        /\ carrier' = extractor
        /\ before' = extractor
        /\ op' = "extract_with_context"
        /\ UNCHANGED <<calls, sent, arg, got, log>>

NextContext == DeriveWithCorrelations \/ DeriveCleared \/ DeriveExtracted

SpecContext == InitContext /\ [][NextContext]_vars

====
